---- MODULE Spec2Model ----
(***************************************************************************)
(* A model of manhattan_generator.py: the chromosome encoder (encode_chr), *)
(* the argument check that builds the exclusion set (checkArgs), the       *)
(* table reader (read_input_file), the layout and drawing of the           *)
(* chromosomes (create_manhattan_plot) and the dragging of the annotations *)
(* (DraggableAnnotation).                                                  *)
(*                                                                         *)
(* Text is a sequence of one-character strings (<<"x","y">> is "xy"), so   *)
(* that upper(), int() and float() are computed character by character.    *)
(* A floating-point number v is held as the integer 10*v (one decimal      *)
(* digit); chromosome codes are plain integers.                            *)
(***************************************************************************)
EXTENDS Integers, Sequences, FiniteSets, TLC

VARIABLES
    chromosome,              \* encode_chr: the argument of the last call
    encoded,                 \* encode_chr: how the last call ended
    pc,                      \* read_input_file: where main() is
    use_physical_positions,  \* args.phys_pos_flag
    use_pvalues,             \* args.use_pvalues_flag
    exclude_chr,             \* args.exclude_chr: the labels given, then
                             \* (after checkArgs) the set of their codes
    inFileOpen,              \* the file object inFile is open
    line_nb,                 \* number of lines consumed from inFile
    headerIndex,             \* column name -> 0-based column index
    row,                     \* the split line being processed
    data,                    \* the list of tuples collected so far
    outcome,                 \* how read_input_file ended
    twopoint,                \* create_manhattan_plot: the two-point dataset
    multipoint,              \* the multipoint dataset
    no_annotation,           \* args.no_annotation
    plot_pc,                 \* where create_manhattan_plot is
    availableChr,            \* the chromosomes to draw, in order
    figure,                  \* the figure has been created
    startingPos,             \* the cursor of the layout
    ticks,                   \* the label position of each chromosome drawn
    boxes,                   \* chromosome, startingPos, maxPos, xmin and
                             \* xmax of each turn of the loop
    spans,                   \* the ax.axvspan calls made
    plotted,                 \* the points given to ax.plot
    annots,                  \* the annotations made
    plot_outcome,            \* how create_manhattan_plot ended
    drs,                     \* the connected DraggableAnnotation objects
    lock,                    \* DraggableAnnotation.lock
    press,                   \* self.press of each object
    background,              \* self.background of each object is set
    animated,                \* the animated property of each annotation
    xyann,                   \* the text position of each annotation
    event                    \* the last event the canvas has dispatched

encVars == <<chromosome, encoded>>
readVars == <<pc, use_physical_positions, use_pvalues, exclude_chr,
              inFileOpen, line_nb, headerIndex, row, data, outcome>>
plotVars == <<twopoint, multipoint, no_annotation, plot_pc, availableChr,
              figure, startingPos, ticks, boxes, spans, plotted, annots,
              plot_outcome>>
dragVars == <<drs, lock, press, background, animated, xyann, event>>
vars == <<chromosome, encoded, pc, use_physical_positions, use_pvalues,
          exclude_chr, inFileOpen, line_nb, headerIndex, row, data, outcome,
          twopoint, multipoint, no_annotation, plot_pc, availableChr,
          figure, startingPos, ticks, boxes, spans, plotted, annots,
          plot_outcome, drs, lock, press, background, animated, xyann,
          event>>

----------------------------------------------------------------------------
(* Bounds of the model.                                                    *)

MaxLabelLen == 2
MaxRows == 2
MaxMarkers == 2
NumAnnots == 2
MaxCoord == 1

----------------------------------------------------------------------------
(* Characters and the Python built-ins the program applies to text.        *)

Range(s) == {s[i] : i \in 1..Len(s)}

\* The characters of the model in ASCII order.
Chars == <<"-", ".", "0", "1", "2", "3", "4", "5", "6", "7", "8", "9",
           "A", "B", "M", "N", "Q", "T", "X", "Y", "Z",
           "a", "b", "m", "n", "q", "t", "x", "y", "z">>

ord(c) == CHOOSE i \in 1..Len(Chars) : Chars[i] = c

LowerCase == <<"a", "b", "m", "n", "q", "t", "x", "y", "z">>
UpperCase == <<"A", "B", "M", "N", "Q", "T", "X", "Y", "Z">>

UpperChar(c) ==
    IF c \in Range(LowerCase)
    THEN UpperCase[CHOOSE i \in 1..Len(LowerCase) : LowerCase[i] = c]
    ELSE c

\* str.upper()
upper(s) == [i \in 1..Len(s) |-> UpperChar(s[i])]

DigitChars == <<"0", "1", "2", "3", "4", "5", "6", "7", "8", "9">>

IsDigit(c) == c \in Range(DigitChars)

DigitVal(c) == (CHOOSE i \in 1..Len(DigitChars) : DigitChars[i] = c) - 1

AllDigits(s) == \A i \in 1..Len(s) : IsDigit(s[i])

RECURSIVE DecValue(_)
DecValue(s) ==
    IF s = <<>> THEN 0
    ELSE DecValue(SubSeq(s, 1, Len(s) - 1)) * 10 + DigitVal(s[Len(s)])

HasSign(s) == s # <<>> /\ s[1] = "-"
Unsigned(s) == IF HasSign(s) THEN Tail(s) ELSE s
Sign(s) == IF HasSign(s) THEN -1 ELSE 1

\* int(s) raises no ValueError: an optional sign and at least one digit.
IntParses(s) == Unsigned(s) # <<>> /\ AllDigits(Unsigned(s))

\* int(s)
int(s) == Sign(s) * DecValue(Unsigned(s))

DotAt(s) == {i \in 1..Len(s) : s[i] = "."}
IntPart(s) == IF DotAt(s) = {} THEN s
              ELSE SubSeq(s, 1, (CHOOSE i \in DotAt(s) : TRUE) - 1)
FracPart(s) == IF DotAt(s) = {} THEN <<>>
               ELSE SubSeq(s, (CHOOSE i \in DotAt(s) : TRUE) + 1, Len(s))

\* The literals float() accepts besides decimal numbers.
IsSpecialFloat(s) ==
    upper(Unsigned(s)) \in {<<"N", "A", "N">>}

\* float(s) raises no ValueError.  Decimal syntax is an optional sign,
\* digits, at most one point, and at least one digit in all.
FloatParses(s) ==
    \/ IsSpecialFloat(s)
    \/ LET u == Unsigned(s) IN
           /\ Cardinality(DotAt(u)) <= 1
           /\ AllDigits(IntPart(u))
           /\ AllDigits(FracPart(u))
           /\ Len(IntPart(u)) + Len(FracPart(u)) >= 1

\* float(s), in tenths.  The texts of the model carry at most one
\* fractional digit.
float(s) ==
    IF IsSpecialFloat(s) THEN "nan"
    ELSE LET u == Unsigned(s) IN
         Sign(s) * (DecValue(IntPart(u)) * 10
                    + (IF FracPart(u) = <<>> THEN 0
                       ELSE DigitVal(FracPart(u)[1])))

----------------------------------------------------------------------------
(* ProgramError and encode_chr.                                            *)

\* raise ProgramError(msg): msg is kept as the parts the format string
\* joins.
ProgramError(msg) == [type |-> "ProgramError", message |-> msg]

Return(v) == [type |-> "return", value |-> v]

\* encode_chr with the comparison made on the label as given.
encode_chr_case_sensitive(label) ==
    IF label = <<"X">> THEN Return(23)
    ELSE IF label = <<"Y">> THEN Return(24)
    ELSE IF label = <<"X", "Y">> THEN Return(25)
    ELSE IF label = <<"M", "T">> THEN Return(26)
    ELSE IF IntParses(label) THEN Return(int(label))
    ELSE ProgramError(<<label, ": not a valid chromosome">>)

\* encode_chr with the codes of X and Y exchanged.
encode_chr_swapped(label) ==
    LET c == upper(label) IN
    IF c = <<"X">> THEN Return(24)
    ELSE IF c = <<"Y">> THEN Return(23)
    ELSE IF c = <<"X", "Y">> THEN Return(25)
    ELSE IF c = <<"M", "T">> THEN Return(26)
    ELSE IF IntParses(c) THEN Return(int(c))
    ELSE ProgramError(<<c, ": not a valid chromosome">>)

encode_chr(label) ==
    LET c == upper(label) IN
    IF c = <<"X">> THEN Return(23)
    ELSE IF c = <<"Y">> THEN Return(24)
    ELSE IF c = <<"X", "Y">> THEN Return(25)
    ELSE IF c = <<"M", "T">> THEN Return(26)
    ELSE IF IntParses(c) THEN Return(int(c))
    ELSE ProgramError(<<c, ": not a valid chromosome">>)

----------------------------------------------------------------------------
(* The encoder on its own: every label over LabelChars up to MaxLabelLen.  *)

LabelChars == {"x", "X", "y", "Y", "m", "M", "t", "T", "0", "3", "-", "q"}

RECURSIVE TextsUpTo(_, _)
TextsUpTo(S, n) ==
    IF n = 0 THEN {<<>>}
    ELSE LET shorter == TextsUpTo(S, n - 1) IN
         shorter \cup {Append(t, c) : t \in shorter, c \in S}

Labels == TextsUpTo(LabelChars, MaxLabelLen)

NotCalled == [type |-> "none"]

\* Python's None where the value is otherwise a sequence or a tuple.
None == <<>>
\* DraggableAnnotation.lock when no object holds it; the objects are
\* numbered from 1.
NoLock == 0
\* create_manhattan_plot has not been called.
PlotIdle ==
    /\ twopoint = None
    /\ multipoint = None
    /\ no_annotation = FALSE
    /\ plot_pc = "off"
    /\ availableChr = <<>>
    /\ figure = FALSE
    /\ startingPos = 0
    /\ ticks = <<>>
    /\ boxes = <<>>
    /\ spans = <<>>
    /\ plotted = <<>>
    /\ annots = <<>>
    /\ plot_outcome = NotCalled

\* No DraggableAnnotation has been made.
DragIdle ==
    /\ drs = {}
    /\ lock = NoLock
    /\ press = <<>>
    /\ background = <<>>
    /\ animated = <<>>
    /\ xyann = <<>>
    /\ event = [name |-> "none"]

ReadIdle ==
    /\ pc = "off"
    /\ use_physical_positions = FALSE
    /\ use_pvalues = FALSE
    /\ exclude_chr = {}
    /\ inFileOpen = FALSE
    /\ line_nb = 0
    /\ headerIndex = <<>>
    /\ row = <<>>
    /\ data = <<>>
    /\ outcome = NotCalled

EncIdle ==
    /\ chromosome = <<>>
    /\ encoded = NotCalled

InitEncode ==
    /\ chromosome \in Labels
    /\ encoded = NotCalled
    /\ ReadIdle
    /\ PlotIdle
    /\ DragIdle

CallEncode ==
    /\ encoded = NotCalled
    /\ encoded' = encode_chr(chromosome)
    /\ UNCHANGED chromosome
    /\ UNCHANGED readVars
    /\ UNCHANGED <<plotVars, dragVars>>

NextEncode == CallEncode

SpecEncode == InitEncode /\ [][NextEncode]_vars

----------------------------------------------------------------------------
(* The documented reference of the encoder, written out label by label.    *)

RefX == {<<"x">>, <<"X">>}
RefY == {<<"y">>, <<"Y">>}
RefXY == {<<"x", "y">>, <<"x", "Y">>, <<"X", "y">>, <<"X", "Y">>}
RefMT == {<<"m", "t">>, <<"m", "T">>, <<"M", "t">>, <<"M", "T">>}

RefDigits == TextsUpTo(Range(DigitChars) \cap LabelChars, MaxLabelLen) \ {<<>>}

\* The labels that are an integer literal, and the integer each one writes.
RefIsInteger(label) ==
    \/ label \in RefDigits
    \/ \E d \in RefDigits : label = <<"-">> \o d

RefInteger(label) ==
    IF label[1] = "-" THEN 0 - DecValue(Tail(label)) ELSE DecValue(label)

\* What the reference says of a label, the text of the message left open.
RefAgrees(label, res) ==
    IF label \in RefX THEN res = Return(23)
    ELSE IF label \in RefY THEN res = Return(24)
    ELSE IF label \in RefXY THEN res = Return(25)
    ELSE IF label \in RefMT THEN res = Return(26)
    ELSE IF RefIsInteger(label) THEN res = Return(RefInteger(label))
    ELSE /\ res.type = "ProgramError"
         /\ Len(res.message) = 2
         /\ res.message[2] = ": not a valid chromosome"

\* C1 as stated: encode_chr returns 23, 24, 25, 26 for X, Y, XY, MT in any
\* letter case, the integer itself for an integer label (no range check),
\* and otherwise fails with a ProgramError whose message names the label.
C1_Original ==
    encoded # NotCalled =>
        /\ RefAgrees(chromosome, encoded)
        /\ encoded.type = "ProgramError" => encoded.message[1] = chromosome

\* C1 as amended: the same mapping, and the message of the ProgramError
\* names the label converted to upper case.
C1_EncodeAgrees ==
    encoded # NotCalled =>
        /\ RefAgrees(chromosome, encoded)
        /\ encoded.type = "ProgramError" =>
               encoded.message[1] = upper(chromosome)

\* A lower-case label that is no chromosome has been rejected.
C1_Witness ==
    /\ chromosome = <<"q", "x">>
    /\ encoded.type = "ProgramError"

----------------------------------------------------------------------------
(* The options read_input_file uses, and the files it is given.            *)

\* The default column names of parseArgs.
col_chr == "chr"
col_name == "name"
col_pos == "pos"
col_cm == "cm"
col_pvalue == "p_value"
col_lod == "lod"

inFileName == "twopoint.txt"

\* --exclude-chr as given, already split at the commas; <<>> is None,
\* which checkArgs turns into set().
ExcludeArgs == {<<>>, << <<"x">> >>, << <<"2", "3">> >>}

FullHeader == <<"chr", "name", "pos", "cm", "lod", "p_value">>

Without(s, i) == SubSeq(s, 1, i - 1) \o SubSeq(s, i + 1, Len(s))

\* The header lines: every column, the columns of the bp/LOD mode in
\* another order with one the program ignores, and every column but one.
Headers ==
    {FullHeader, <<"lod", "pos", "extra", "name", "chr">>}
        \cup {Without(FullHeader, i) : i \in 1..Len(FullHeader)}

ChrTexts == {<<"1">>, <<"x">>, <<"0">>, <<"q">>}
PosTexts == {<<"1", "0">>, <<"1", ".", "5">>, <<"z">>}
NameTexts == {<<"a">>, <<"b">>}
ConfTexts == {<<"1">>, <<"0", ".", "1">>, <<"N", "a">>, <<"n", "a", "n">>,
              <<"q">>}

\* What a column the program does not read holds.
Filler == <<"-">>

----------------------------------------------------------------------------
(* checkArgs, as far as the exclusion set goes.                            *)

CheckArgs ==
    /\ pc = "checkArgs"
    /\ LET results == {encode_chr(l) : l \in Range(exclude_chr)}
           failed == {r \in results : r.type = "ProgramError"}
       IN  IF failed # {}
           THEN /\ outcome' = CHOOSE r \in failed : TRUE
                /\ pc' = "done"
                /\ UNCHANGED exclude_chr
           ELSE /\ exclude_chr' = {r.value : r \in results}
                /\ pc' = "read_input_file"
                /\ UNCHANGED outcome
    /\ UNCHANGED <<use_physical_positions, use_pvalues, inFileOpen, line_nb,
                   headerIndex, row, data>>
    /\ UNCHANGED encVars
    /\ UNCHANGED <<plotVars, dragVars>>

----------------------------------------------------------------------------
(* read_input_file.                                                        *)

\* inFile = open(inFileName, 'r'); data = []; headerIndex = {}
Open ==
    /\ pc = "read_input_file"
    /\ inFileOpen' = TRUE
    /\ data' = <<>>
    /\ headerIndex' = <<>>
    /\ pc' = "loop"
    /\ UNCHANGED <<use_physical_positions, use_pvalues, exclude_chr,
                   line_nb, row, outcome>>
    /\ UNCHANGED encVars
    /\ UNCHANGED <<plotVars, dragVars>>

\* dict([(colName, i) for i, colName in enumerate(row)])
HeaderDict(r) ==
    [c \in Range(r) |->
        (CHOOSE i \in 1..Len(r) :
            r[i] = c /\ \A j \in 1..Len(r) : r[j] = c => j <= i) - 1]

posColumn == IF use_physical_positions THEN col_pos ELSE col_cm
confColumn == IF use_pvalues THEN col_pvalue ELSE col_lod

\* colNames with the position column taken to be col_pos whatever the flag.
colNames_pos_always == <<col_chr, col_name, col_pos, confColumn>>

colNames == <<col_chr, col_name, posColumn, confColumn>>

\* The first required column the header lacks, as the loop finds it.
MissingIn(index) == {i \in 1..Len(colNames) : colNames[i] \notin DOMAIN index}

FirstMissing(index) ==
    colNames[CHOOSE i \in MissingIn(index) : \A j \in MissingIn(index) : i <= j]

ReadHeader ==
    /\ pc = "loop"
    /\ line_nb = 0
    /\ \E h \in Headers :
           /\ row' = h
           /\ headerIndex' = HeaderDict(h)
           /\ IF MissingIn(HeaderDict(h)) # {}
              THEN /\ outcome' = ProgramError(
                           <<inFileName, ": no column named ",
                             FirstMissing(HeaderDict(h))>>)
                   /\ pc' = "done"
              ELSE UNCHANGED <<outcome, pc>>
    /\ line_nb' = 1
    /\ UNCHANGED <<use_physical_positions, use_pvalues, exclude_chr,
                   inFileOpen, data>>
    /\ UNCHANGED encVars
    /\ UNCHANGED <<plotVars, dragVars>>

\* row[headerIndex[col]]
Field(r, col) == r[headerIndex[col] + 1]

\* A data line under the header read: the four fields in their columns.
Line(c, p, n, f) ==
    [i \in 1..Cardinality(DOMAIN headerIndex) |->
        LET col == CHOOSE k \in DOMAIN headerIndex : headerIndex[k] = i - 1
        IN  IF col = col_chr THEN c
            ELSE IF col = col_name THEN n
            ELSE IF col = posColumn THEN p
            ELSE IF col = confColumn THEN f
            ELSE Filler]

\* [float, int][use_physical_positions] applied to the position text.
PosParses(t) == IF use_physical_positions THEN IntParses(t) ELSE FloatParses(t)
PosValue(t) == IF use_physical_positions THEN int(t) * 10 ELSE float(t)

\* The test for a missing confidence with "NA" forgotten.
IsNA_nan_only(t) == upper(t) = <<"N", "A", "N">>

\* confidence.upper() == "NA" or confidence.upper() == "NAN"
IsNA(t) == upper(t) = <<"N", "A">> \/ upper(t) = <<"N", "A", "N">>

Continue == [kind |-> "continue"]
\* A ValueError answered by passing over the row.
Raise_skips_row(msg) == [kind |-> "continue"]

Raise(msg) == [kind |-> "raise", error |-> ProgramError(msg)]
AppendRec(rec) == [kind |-> "append", rec |-> rec]

\* The body of the loop with the position parsed before the exclusion test.
RowStep_position_first(r) ==
    LET chrom == encode_chr(Field(r, col_chr))
        position == Field(r, posColumn)
        confidence == Field(r, confColumn)
    IN  IF chrom.type = "ProgramError"
            THEN [kind |-> "raise", error |-> chrom]
        ELSE IF ~PosParses(position)
            THEN Raise(<<position, ": invalid position in ", inFileName>>)
        ELSE IF chrom.value \in exclude_chr
            THEN Continue
        ELSE IF IsNA(confidence)
            THEN Continue
        ELSE IF ~FloatParses(confidence)
            THEN Raise(<<confidence, ": invalid confidence in ", inFileName>>)
        ELSE AppendRec([chr |-> chrom.value,
                        pos |-> PosValue(position),
                        name |-> Field(r, col_name),
                        conf |-> float(confidence)])

\* The body of the loop for a data line r.
RowStep(r) ==
    LET chrom == encode_chr(Field(r, col_chr))
        position == Field(r, posColumn)
        confidence == Field(r, confColumn)
    IN  IF chrom.type = "ProgramError"
            THEN [kind |-> "raise", error |-> chrom]
        ELSE IF chrom.value \in exclude_chr
            THEN Continue
        ELSE IF ~PosParses(position)
            THEN Raise(<<position, ": invalid position in ", inFileName>>)
        ELSE IF IsNA(confidence)
            THEN Continue
        ELSE IF ~FloatParses(confidence)
            THEN Raise(<<confidence, ": invalid confidence in ", inFileName>>)
        ELSE AppendRec([chr |-> chrom.value,
                        pos |-> PosValue(position),
                        name |-> Field(r, col_name),
                        conf |-> float(confidence)])

ReadRow ==
    /\ pc = "loop"
    /\ line_nb >= 1
    /\ line_nb <= MaxRows
    /\ \E c \in ChrTexts, p \in PosTexts, n \in NameTexts, f \in ConfTexts :
         \E r \in {Line(c, p, n, f)} :
           \E step \in {RowStep(r)} :
               /\ row' = r
               /\ IF step.kind = "raise"
                  THEN /\ outcome' = step.error
                       /\ pc' = "done"
                       /\ UNCHANGED data
                  ELSE IF step.kind = "continue"
                  THEN UNCHANGED <<outcome, pc, data>>
                  ELSE /\ data' = Append(data, step.rec)
                       /\ UNCHANGED <<outcome, pc>>
    /\ line_nb' = line_nb + 1
    /\ UNCHANGED <<use_physical_positions, use_pvalues, exclude_chr,
                   inFileOpen, headerIndex>>
    /\ UNCHANGED encVars
    /\ UNCHANGED <<plotVars, dragVars>>

----------------------------------------------------------------------------
(* The array, its sort and the p-value transform.                          *)

\* A byte of a fixed-width string field: shorter names are padded with 0.
Byte(s, i) == IF i <= Len(s) THEN ord(s[i]) ELSE 0

StrLess(s, t) ==
    \E i \in 1..(Len(s) + Len(t)) :
        /\ \A j \in 1..(i - 1) : Byte(s, j) = Byte(t, j)
        /\ Byte(s, i) < Byte(t, i)

\* A comparison on the fields of order alone, which leaves ties alone.
RecLess_key_only(a, b) ==
    \/ a.chr < b.chr
    \/ a.chr = b.chr /\ a.pos < b.pos

\* A comparison on chr alone.
RecLess_chr_only(a, b) == a.chr < b.chr

\* The comparison turned round: a descending sort.
RecLess_descending(a, b) ==
    \/ b.chr < a.chr
    \/ a.chr = b.chr /\ b.pos < a.pos
    \/ a.chr = b.chr /\ a.pos = b.pos /\ StrLess(b.name, a.name)
    \/ a.chr = b.chr /\ a.pos = b.pos /\ a.name = b.name /\ b.conf < a.conf

\* The comparison of two elements under order=["chr", "pos"]: the fields
\* named first, then the remaining fields of the dtype, name and conf.
RecLess(a, b) ==
    \/ a.chr < b.chr
    \/ a.chr = b.chr /\ a.pos < b.pos
    \/ a.chr = b.chr /\ a.pos = b.pos /\ StrLess(a.name, b.name)
    \/ a.chr = b.chr /\ a.pos = b.pos /\ a.name = b.name /\ a.conf < b.conf

\* x put into the sorted sequence s after every element not greater.
Insert(s, x) ==
    LET k == Cardinality({i \in 1..Len(s) : ~RecLess(x, s[i])})
    IN  SubSeq(s, 1, k) \o <<x>> \o SubSeq(s, k + 1, Len(s))

\* data.sort(order=["chr", "pos"])
RECURSIVE Sort(_)
Sort(s) ==
    IF s = <<>> THEN <<>>
    ELSE Insert(Sort(SubSeq(s, 1, Len(s) - 1)), s[Len(s)])

\* -1 * np.log10(c) on the confidence values of the model, in tenths.
NegLog10(c) ==
    CASE c = 1 -> 10
      [] c = 10 -> 0
      [] c = 100 -> -10

\* The transform writing to each record the value of the record opposite.
Transform_misaligned(s) ==
    IF use_pvalues
    THEN [i \in 1..Len(s) |->
              [s[i] EXCEPT !.conf = NegLog10(s[Len(s) + 1 - i].conf)]]
    ELSE s

\* if use_pvalues: data["conf"] = -1 * np.log10(data["conf"])
Transform(s) ==
    IF use_pvalues
    THEN [i \in 1..Len(s) |-> [s[i] EXCEPT !.conf = NegLog10(s[i].conf)]]
    ELSE s

\* The end of the file: close, build the array, sort, transform, return.
\* The loop variable row goes with the frame of the call.
EndOfFile ==
    /\ pc = "loop"
    /\ inFileOpen' = FALSE
    /\ IF data = <<>>
       THEN outcome' = [type |-> "ValueError",
                        message |-> "max() arg is an empty sequence"]
       ELSE outcome' = Return(Transform(Sort(data)))
    /\ pc' = "done"
    /\ row' = <<>>
    /\ UNCHANGED <<use_physical_positions, use_pvalues, exclude_chr,
                   line_nb, headerIndex, data>>
    /\ UNCHANGED encVars
    /\ UNCHANGED <<plotVars, dragVars>>

Init ==
    /\ EncIdle
    /\ pc = "checkArgs"
    /\ use_physical_positions \in BOOLEAN
    /\ use_pvalues \in BOOLEAN
    /\ exclude_chr \in ExcludeArgs
    /\ inFileOpen = FALSE
    /\ line_nb = 0
    /\ headerIndex = <<>>
    /\ row = <<>>
    /\ data = <<>>
    /\ outcome = NotCalled
    /\ PlotIdle
    /\ DragIdle

Next ==
    \/ CheckArgs
    \/ Open
    \/ ReadHeader
    \/ ReadRow
    \/ EndOfFile

Spec == Init /\ [][Next]_vars

----------------------------------------------------------------------------
(* What the claims about read_input_file speak of, written out on the      *)
(* texts of the model and not through the parsers.                         *)

\* row is a data line: the loop has gone past the header and not ended.
DataRow == line_nb >= 2 /\ row # <<>>

RowChr == Field(row, col_chr)
RowName == Field(row, col_name)
RowPos ==
    Field(row, IF use_physical_positions THEN "pos" ELSE "cm")
RowConf ==
    Field(row, IF use_pvalues THEN "p_value" ELSE "lod")

RefValidChr(t) == t \in {<<"1">>, <<"x">>, <<"0">>}
RefCode(t) ==
    CASE t = <<"1">> -> 1
      [] t = <<"x">> -> 23
      [] t = <<"0">> -> 0

\* The position texts that do not parse in the selected unit.
RefBadPos(t) ==
    IF use_physical_positions THEN t \in {<<"1", ".", "5">>, <<"z">>}
    ELSE t = <<"z">>
RefPos(t) ==
    CASE t = <<"1", "0">> -> 100
      [] t = <<"1", ".", "5">> -> 15

RefNA(t) == t \in {<<"N", "a">>, <<"n", "a", "n">>}
RefBadConf(t) == t = <<"q">>
RefConf(t) ==
    CASE t = <<"1">> -> 10
      [] t = <<"0", ".", "1">> -> 1

\* The row is neither excluded, nor NA, nor in error.
RefKept ==
    /\ RefValidChr(RowChr)
    /\ RefCode(RowChr) \notin exclude_chr
    /\ ~RefBadPos(RowPos)
    /\ ~RefNA(RowConf)
    /\ ~RefBadConf(RowConf)

\* -log10 on the two confidence values of the model (1.0 and 0.1).
RefNorm(rec) ==
    IF use_pvalues
    THEN [rec EXCEPT !.conf = IF rec.conf = 10 THEN 0 ELSE 10]
    ELSE rec

RefNormAll(s) == [i \in 1..Len(s) |-> RefNorm(s[i])]

Returned == outcome.type = "return"

----------------------------------------------------------------------------
\* C2 as stated: every record of a returned dataset has a chromosome code
\* that is a positive integer.
C2_Original ==
    Returned => \A i \in 1..Len(outcome.value) : outcome.value[i].chr >= 1

\* C2 as amended: every record carries the integer encode_chr gives the
\* label of its row (23 for X, the label's own integer otherwise), which is
\* at least 1 except for a label that is an integer below 1, kept as it is.
C2_ChromosomeIsEncodedLabel ==
    /\ pc = "loop" /\ DataRow /\ RefKept =>
           /\ data # <<>>
           /\ data[Len(data)].chr = RefCode(RowChr)
           /\ data[Len(data)].chr >= 1 <=> RowChr # <<"0">>
    /\ Returned =>
           \A i \in 1..Len(outcome.value) :
               /\ outcome.value[i].chr \in {1, 23, 0}
               /\ \E j \in 1..Len(data) : data[j].chr = outcome.value[i].chr

\* A dataset with a record of chromosome 0 has been returned.
C2_Witness ==
    /\ Returned
    /\ \E i \in 1..Len(outcome.value) : outcome.value[i].chr = 0

----------------------------------------------------------------------------
RefRequired ==
    {"chr", "name",
     IF use_physical_positions THEN "pos" ELSE "cm",
     IF use_pvalues THEN "p_value" ELSE "lod"}

\* C3: when the header lacks a required column of the selected modes, the
\* read fails with the error naming the file and a column that is missing,
\* with only the header consumed and no row collected, whatever other
\* columns the header holds.
C3_MissingColumn ==
    line_nb >= 1 /\ RefRequired \ DOMAIN headerIndex # {} =>
        /\ pc = "done"
        /\ outcome.type = "ProgramError"
        /\ Len(outcome.message) = 3
        /\ outcome.message[1] = inFileName
        /\ outcome.message[2] = ": no column named "
        /\ outcome.message[3] \in RefRequired \ DOMAIN headerIndex
        /\ line_nb = 1
        /\ data = <<>>

\* In cM mode a header with every column but cm has been refused.
C3_Witness ==
    /\ line_nb = 1
    /\ ~use_physical_positions
    /\ DOMAIN headerIndex = {"chr", "name", "pos", "lod", "p_value"}
    /\ outcome.type = "ProgramError"
    /\ outcome.message[3] = "cm"

----------------------------------------------------------------------------
\* C4: a data row whose encoded chromosome is in the excluded set is
\* skipped without raising whatever its position and confidence hold, and
\* no record collected or returned has an excluded chromosome.
C4_ExclusionSilent ==
    pc \in {"loop", "done"} =>
        /\ DataRow /\ RefValidChr(RowChr) /\ RefCode(RowChr) \in exclude_chr
               => pc = "loop" /\ outcome = NotCalled
        /\ \A i \in 1..Len(data) : data[i].chr \notin exclude_chr
        /\ Returned =>
               \A i \in 1..Len(outcome.value) :
                   outcome.value[i].chr \notin exclude_chr

\* With 23 excluded, a row of chromosome x whose position and confidence
\* parse as nothing has been passed over after a row was collected.
C4_Witness ==
    /\ pc = "loop"
    /\ DataRow
    /\ exclude_chr = {23}
    /\ RowChr = <<"x">>
    /\ RowPos = <<"z">>
    /\ RowConf = <<"q">>
    /\ data # <<>>

----------------------------------------------------------------------------
\* C5 as stated: a data row whose confidence is NA or NAN in any case is
\* left out of the dataset and does not make the read raise, whatever its
\* other fields hold.
C5_Original ==
    /\ DataRow /\ RefNA(RowConf) => pc = "loop" /\ outcome = NotCalled
    /\ \A i \in 1..Len(data) : data[i].conf \in {1, 10}

\* C5 as amended: such a row is left out of the dataset, and it does not
\* make the read raise provided its chromosome label encodes and, unless
\* that chromosome is excluded, its position parses.
C5_NASkipped ==
    /\ DataRow /\ RefNA(RowConf) /\ RefValidChr(RowChr)
         /\ (RefCode(RowChr) \in exclude_chr \/ ~RefBadPos(RowPos))
           => pc = "loop" /\ outcome = NotCalled
    /\ \A i \in 1..Len(data) : data[i].conf \in {1, 10}

\* A row of chromosome 1 with confidence "Na" has been passed over.
C5_Witness ==
    /\ pc = "loop"
    /\ DataRow
    /\ RowConf = <<"N", "a">>
    /\ RowChr = <<"1">>
    /\ ~RefBadPos(RowPos)
    /\ 1 \notin exclude_chr

----------------------------------------------------------------------------
\* C6: a row that is not excluded and whose position does not parse in the
\* selected unit, or whose confidence is neither NA/NAN nor a float, ends
\* the read with a ProgramError naming the raw value and the file; nothing
\* runs after it, so no dataset is returned.
C6_ParseFailureAborts ==
    DataRow /\ RefValidChr(RowChr) /\ RefCode(RowChr) \notin exclude_chr =>
        /\ RefBadPos(RowPos) =>
               /\ outcome = [type |-> "ProgramError",
                             message |-> <<RowPos, ": invalid position in ",
                                           inFileName>>]
               /\ pc = "done"
               /\ ~ENABLED Next
        /\ ~RefBadPos(RowPos) /\ RefBadConf(RowConf) =>
               /\ outcome = [type |-> "ProgramError",
                             message |-> <<RowConf, ": invalid confidence in ",
                                           inFileName>>]
               /\ pc = "done"
               /\ ~ENABLED Next

\* In bp mode a position of 1.5 has ended the read after a row was
\* collected.
C6_Witness ==
    /\ pc = "done"
    /\ use_physical_positions
    /\ data # <<>>
    /\ outcome.type = "ProgramError"
    /\ outcome.message[1] = <<"1", ".", "5">>

----------------------------------------------------------------------------
\* C7: the read ends with a dataset that is not empty or with the typed
\* ProgramError.
C7_TypedOrNonEmpty ==
    pc = "done" =>
        \/ Returned /\ outcome.value # <<>>
        \/ outcome.type = "ProgramError"

----------------------------------------------------------------------------
\* C8: the returned dataset is ascending on (chr, pos), and it holds the
\* rows that were not skipped, each as often as they were collected.
C8_SortedPermutation ==
    Returned =>
        LET v == outcome.value
            d == RefNormAll(data)
        IN  /\ \A i \in 1..(Len(v) - 1) :
                   \/ v[i].chr < v[i + 1].chr
                   \/ v[i].chr = v[i + 1].chr /\ v[i].pos <= v[i + 1].pos
            /\ Len(v) = Len(d)
            /\ \A i \in 1..Len(v) :
                   Cardinality({j \in 1..Len(v) : v[j] = v[i]})
                       = Cardinality({j \in 1..Len(d) : d[j] = v[i]})

\* Two rows collected in descending order of chromosome have been returned.
C8_Witness ==
    /\ Returned
    /\ Len(data) >= 2
    /\ data[1].chr > data[2].chr

----------------------------------------------------------------------------
\* C9 as stated: records with equal chromosome and position keep in the
\* result the relative order of their rows in the file.
C9_Original ==
    Returned =>
        \A k \in 1..Len(data) :
            LET SameKey(x) == x.chr = data[k].chr /\ x.pos = data[k].pos
            IN  SelectSeq(outcome.value, SameKey)
                    = RefNormAll(SelectSeq(data, SameKey))

\* C9 as amended: records with equal chromosome and position appear in the
\* result in ascending order of name and then of parsed confidence,
\* whatever the order of their rows in the file.
C9_TiesByNameThenConf ==
    Returned =>
        LET v == outcome.value IN
        \A i, j \in 1..Len(v) :
            i < j /\ v[i].chr = v[j].chr /\ v[i].pos = v[j].pos =>
                \/ v[i].name = <<"a">> /\ v[j].name = <<"b">>
                \/ /\ v[i].name = v[j].name
                   /\ IF use_pvalues THEN v[i].conf >= v[j].conf
                      ELSE v[i].conf <= v[j].conf

\* Two rows of one chromosome and position, the first named b and the
\* second a, have been returned.
C9_Witness ==
    /\ Returned
    /\ Len(data) >= 2
    /\ data[1].chr = data[2].chr
    /\ data[1].pos = data[2].pos
    /\ data[1].name = <<"b">>
    /\ data[2].name = <<"a">>

----------------------------------------------------------------------------
KeyAscending(s) ==
    \A i \in 1..(Len(s) - 1) :
        \/ s[i].chr < s[i + 1].chr
        \/ s[i].chr = s[i + 1].chr /\ s[i].pos <= s[i + 1].pos

TiesAscending(s) ==
    \A i \in 1..(Len(s) - 1) :
        s[i].chr = s[i + 1].chr /\ s[i].pos = s[i + 1].pos =>
            \/ s[i].name = <<"a">> /\ s[i + 1].name = <<"b">>
            \/ s[i].name = s[i + 1].name /\ s[i].conf <= s[i + 1].conf

\* C10 as stated: rows collected in ascending order of (chr, pos), ties
\* included, are returned in the order they were collected.
C10_Original ==
    Returned /\ KeyAscending(data) => outcome.value = RefNormAll(data)

\* C10 as amended: rows collected in ascending order of (chr, pos) whose
\* ties are in ascending order of name and then confidence are returned in
\* the order they were collected.
C10_SortedInputUnchanged ==
    Returned /\ KeyAscending(data) /\ TiesAscending(data) =>
        outcome.value = RefNormAll(data)

\* Two rows in ascending order, tied on the key and named a then b, have
\* been returned.
C10_Witness ==
    /\ Returned
    /\ Len(data) >= 2
    /\ data[1].chr = data[2].chr
    /\ data[1].pos = data[2].pos
    /\ data[1].name = <<"a">>
    /\ data[2].name = <<"b">>

----------------------------------------------------------------------------
\* The one-to-one assignments of the places of the result to the rows
\* collected.
Assignments(n) ==
    {f \in [1..n -> 1..n] : \A i, j \in 1..n : f[i] = f[j] => i = j}

\* C11: in p-value mode every returned record holds, with the chromosome,
\* position and name of one collected row, -log10 of the value parsed from
\* that same row, taken once (1.0 gives 0, 0.1 gives 1), so that the larger
\* p-value has the smaller confidence; in LOD mode it holds the parsed value
\* itself.
C11_TransformOwnRow ==
    Returned =>
        LET v == outcome.value IN
        /\ Len(v) = Len(data)
        /\ \E f \in Assignments(Len(data)) :
               \A i \in 1..Len(v) :
                   /\ v[i].chr = data[f[i]].chr
                   /\ v[i].pos = data[f[i]].pos
                   /\ v[i].name = data[f[i]].name
                   /\ v[i].conf =
                          IF ~use_pvalues THEN data[f[i]].conf
                          ELSE IF data[f[i]].conf = 10 THEN 0 ELSE 10
                   /\ \A j \in 1..Len(v) :
                          use_pvalues /\ data[f[i]].conf > data[f[j]].conf
                              => v[i].conf < v[j].conf

\* In p-value mode two rows of different p-values, collected in descending
\* order of chromosome, have been returned.
C11_Witness ==
    /\ Returned
    /\ use_pvalues
    /\ Len(data) >= 2
    /\ data[1].chr > data[2].chr
    /\ data[1].conf # data[2].conf

----------------------------------------------------------------------------
\* C15: whenever read_input_file has ended, by a return or by any raise,
\* the file it opened is closed.
C15_FileClosedAtExit ==
    pc = "done" => ~inFileOpen

----------------------------------------------------------------------------
(* create_manhattan_plot.  The datasets are what read_input_file returns:  *)
(* not empty and sorted.  Positions and confidences are in tenths as       *)
(* before; the positions of the model are whole and even, so that the      *)
(* halves taken by the layout are exact.                                   *)

\* args.significant_threshold, 3.0 unless given.
significant_threshold == 30

PlotChrs == {1, 2}
TwopointPositions == {-300, 100, 200}
MultipointPositions == {-300, 200}
TwopointConfs == {29, 30, 31}
MultipointConfs == {10}

TwopointRecords ==
    [chr : PlotChrs, pos : TwopointPositions, name : {<<"a">>},
     conf : TwopointConfs]
MultipointRecords ==
    [chr : PlotChrs, pos : MultipointPositions, name : {<<"a">>},
     conf : MultipointConfs]

\* The arrays read_input_file can return with rows among R.
Datasets(R) ==
    {d \in TextsUpTo(R, MaxMarkers) : d # <<>> /\ Sort(d) = d}

\* The ascending sequence of the integers of S.
RECURSIVE Ascending(_)
Ascending(S) ==
    IF S = {} THEN <<>>
    ELSE LET m == CHOOSE x \in S : \A y \in S : y <= x
         IN  Append(Ascending(S \ {m}), m)

\* sorted(list(np.unique(d["chr"])))
UniqueChr(d) == Ascending({d[k].chr : k \in 1..Len(d)})

\* The test on the two lists of chromosomes passing whenever both datasets
\* are supplied.
Mismatch_always(a, b) == TRUE

\* availableChr[0] != availableChr[1]
Mismatch(a, b) == a # b

ChromosomeSetMismatch ==
    ProgramError("missing chromsoome in either twopoint or multipoint data")

\* The lists of chromosomes, their comparison, availableChr.
CheckChromosomes ==
    /\ plot_pc = "availableChr"
    /\ LET lists ==
               (IF twopoint # None THEN <<UniqueChr(twopoint)>> ELSE <<>>)
               \o (IF multipoint # None THEN <<UniqueChr(multipoint)>>
                   ELSE <<>>)
       IN  IF Len(lists) # 1 /\ Mismatch(lists[1], lists[2])
           THEN /\ plot_outcome' = ChromosomeSetMismatch
                /\ plot_pc' = "done"
                /\ UNCHANGED availableChr
           ELSE /\ availableChr' = lists[1]
                /\ plot_pc' = "figure"
                /\ UNCHANGED plot_outcome
    /\ UNCHANGED <<twopoint, multipoint, no_annotation, figure, startingPos,
                   ticks, boxes, spans, plotted, annots>>
    /\ UNCHANGED <<encVars, readVars, dragVars>>

NoDisplay ==
    ProgramError("There is no available display, but annotation has been asked for...")

\* plt.figure, which fails without a display unless the Agg backend was
\* selected by no_annotation; then the axes and the start of the layout.
CreateFigure ==
    /\ plot_pc = "figure"
    /\ \/ /\ figure' = TRUE
          /\ startingPos' = 0
          /\ annots' = <<>>
          /\ ticks' = <<>>
          /\ plot_pc' = "loop"
          /\ UNCHANGED plot_outcome
       \/ /\ ~no_annotation
          /\ plot_outcome' = NoDisplay
          /\ plot_pc' = "done"
          /\ UNCHANGED <<figure, startingPos, annots, ticks>>
    /\ UNCHANGED <<twopoint, multipoint, no_annotation, availableChr, boxes,
                   spans, plotted>>
    /\ UNCHANGED <<encVars, readVars, dragVars>>

\* chr_spacing = [25.0, 25000000][args.phys_pos_flag]
chr_spacing == IF use_physical_positions THEN 250000000 ELSE 250

\* x / 2.0, exact on the even values of the model.
Half(x) == x \div 2

\* d[np.where(d["chr"] == chrom)]
OfChr(d, chrom) ==
    LET Test(r) == r.chr = chrom IN SelectSeq(d, Test)

MaxOf(S) == CHOOSE m \in S : \A x \in S : x <= m

\* The largest position of the chromosome in the two-point data alone
\* when there are some.
maxPosOf_first_dataset(chrom) ==
    LET d == IF twopoint # None THEN twopoint ELSE multipoint
    IN  MaxOf({OfChr(d, chrom)[k].pos : k \in 1..Len(OfChr(d, chrom))})

\* maxPos: the largest position of the chromosome over the datasets given.
maxPosOf(chrom) ==
    MaxOf({OfChr(twopoint, chrom)[k].pos :
               k \in 1..Len(OfChr(twopoint, chrom))}
          \cup {OfChr(multipoint, chrom)[k].pos :
                    k \in 1..Len(OfChr(multipoint, chrom))})

xminOf(start) == start - Half(chr_spacing)
xmaxOf(start, maxPos) == maxPos + start + Half(chr_spacing)

\* The cursor moved by the length of the chromosome only.
NextStartingPos_no_spacing(start, maxPos) == maxPos + start

\* startingPos = maxPos + startingPos + chr_spacing
NextStartingPos(start, maxPos) == maxPos + start + chr_spacing

\* The marker drawn at its raw position.
MarkerX_raw(pos, start) == pos

\* chr_twopoint["pos"] + startingPos
MarkerX(pos, start) == pos + start

\* The mask of the markers strictly above the threshold.
Significant_strict(conf) == conf > significant_threshold

\* sigMask = chr_twopoint["conf"] >= args.significant_threshold
Significant(conf) == conf >= significant_threshold

\* conf_max with args.max_ylim left out.
conf_max ==
    MaxOf({twopoint[k].conf : k \in 1..Len(twopoint)}
          \cup {multipoint[k].conf : k \in 1..Len(multipoint)})

\* The points one series gives to ax.plot for one chromosome.
Points(series, d, start) ==
    [k \in 1..Len(d) |->
        [series |-> series, chr |-> d[k].chr, pos |-> d[k].pos,
         x |-> MarkerX(d[k].pos, start), y |-> d[k].conf]]

\* ax.annotate for each significant marker.
Annotations(d, start) ==
    [k \in 1..Len(d) |->
        [name |-> d[k].name, chr |-> d[k].chr,
         xy |-> <<MarkerX(d[k].pos, start), d[k].conf>>,
         xytext |-> <<MarkerX(d[k].pos, start), conf_max>>]]

\* One turn of the loop over availableChr; the index i of the turn is the
\* number of ticks made so far.  np.max of an empty selection raises.
PlotChromosome ==
    /\ plot_pc = "loop"
    /\ Len(ticks) < Len(availableChr)
    /\ LET i == Len(ticks)
           chrom == availableChr[i + 1]
           chr_twopoint == OfChr(twopoint, chrom)
           chr_multipoint == OfChr(multipoint, chrom)
           IsSig(r) == Significant(r.conf)
       IN  IF \/ twopoint # None /\ chr_twopoint = <<>>
              \/ multipoint # None /\ chr_multipoint = <<>>
           THEN /\ plot_outcome' =
                       [type |-> "ValueError",
                        message |-> "zero-size array to reduction operation"]
                /\ plot_pc' = "done"
                /\ UNCHANGED <<startingPos, ticks, boxes, spans, plotted,
                               annots>>
           ELSE \E maxPos \in {maxPosOf(chrom)} :
                LET xmin == xminOf(startingPos)
                    xmax == xmaxOf(startingPos, maxPos)
                IN  /\ boxes' = Append(boxes,
                            [chr |-> chrom, startingPos |-> startingPos,
                             maxPos |-> maxPos, xmin |-> xmin, xmax |-> xmax])
                    /\ spans' = IF i % 2 = 1
                                THEN Append(spans, <<xmin, xmax>>)
                                ELSE spans
                    /\ ticks' = Append(ticks, Half(xmin + xmax))
                    /\ plotted' =
                           plotted
                           \o Points("twopoint", chr_twopoint, startingPos)
                           \o Points("multipoint", chr_multipoint,
                                     startingPos)
                           \o Points("significant",
                                     SelectSeq(chr_twopoint, IsSig),
                                     startingPos)
                    /\ annots' =
                           IF no_annotation THEN annots
                           ELSE annots
                                \o Annotations(SelectSeq(chr_twopoint, IsSig),
                                               startingPos)
                    /\ startingPos' = NextStartingPos(startingPos, maxPos)
                    /\ UNCHANGED <<plot_pc, plot_outcome>>
    /\ UNCHANGED <<twopoint, multipoint, no_annotation, availableChr,
                   figure>>
    /\ UNCHANGED <<encVars, readVars, dragVars>>

\* After the loop: a connected DraggableAnnotation for each annotation, the
\* limits and the ticks, and the figure saved or shown.  While plt.show()
\* runs (plot_pc is "shown") the canvas dispatches the events of the
\* pointer.
FinishPlot ==
    /\ plot_pc = "loop"
    /\ Len(ticks) = Len(availableChr)
    /\ drs' = 1..Len(annots)
    /\ press' = [d \in 1..Len(annots) |-> None]
    /\ background' = [d \in 1..Len(annots) |-> FALSE]
    /\ animated' = [d \in 1..Len(annots) |-> FALSE]
    /\ xyann' = [d \in 1..Len(annots) |-> annots[d].xytext]
    /\ plot_outcome' =
           Return(IF no_annotation \/ twopoint = None THEN "saved"
                  ELSE "shown")
    /\ plot_pc' = IF no_annotation \/ twopoint = None THEN "done"
                  ELSE "shown"
    /\ UNCHANGED <<twopoint, multipoint, no_annotation, availableChr, figure,
                   startingPos, ticks, boxes, spans, plotted, annots>>
    /\ UNCHANGED <<lock, event>>
    /\ UNCHANGED <<encVars, readVars>>

\* main() calls create_manhattan_plot with the datasets read; checkArgs has
\* refused the case of no dataset at all.
InitPlot ==
    /\ EncIdle
    /\ pc = "done"
    /\ use_physical_positions \in BOOLEAN
    /\ use_pvalues = FALSE
    /\ exclude_chr = {}
    /\ inFileOpen = FALSE
    /\ line_nb = 0
    /\ headerIndex = <<>>
    /\ row = <<>>
    /\ data = <<>>
    /\ outcome = NotCalled
    /\ twopoint \in Datasets(TwopointRecords) \cup {None}
    /\ multipoint \in Datasets(MultipointRecords) \cup {None}
    /\ twopoint # None \/ multipoint # None
    /\ no_annotation \in BOOLEAN
    /\ plot_pc = "availableChr"
    /\ availableChr = <<>>
    /\ figure = FALSE
    /\ startingPos = 0
    /\ ticks = <<>>
    /\ boxes = <<>>
    /\ spans = <<>>
    /\ plotted = <<>>
    /\ annots = <<>>
    /\ plot_outcome = NotCalled
    /\ DragIdle

NextPlot ==
    \/ CheckChromosomes
    \/ CreateFigure
    \/ PlotChromosome
    \/ FinishPlot

SpecPlot == InitPlot /\ [][NextPlot]_vars

----------------------------------------------------------------------------
(* What the claims about create_manhattan_plot speak of, written out on    *)
(* the two datasets and not through the operators of the model.            *)

RefSupplied == {d \in {twopoint, multipoint} : d # None}
RefChrsOf(d) == {d[k].chr : k \in 1..Len(d)}
RefChrs == UNION {RefChrsOf(d) : d \in RefSupplied}
RefMismatch ==
    /\ twopoint # None
    /\ multipoint # None
    /\ RefChrsOf(twopoint) # RefChrsOf(multipoint)

\* The k-th chromosome in ascending order.
RefNth(k) ==
    CHOOSE c \in RefChrs : Cardinality({x \in RefChrs : x < c}) = k - 1

\* The largest raw position of chromosome c over the datasets supplied.
RefPositions(c) ==
    UNION {{d[k].pos : k \in {j \in 1..Len(d) : d[j].chr = c}} :
               d \in RefSupplied}
RefMaxPos(c) ==
    CHOOSE m \in RefPositions(c) : \A x \in RefPositions(c) : x <= m

\* 25.0 cM or 25000000 bp, in tenths.
RefSpacing == IF use_physical_positions THEN 250000000 ELSE 250

\* The start offset of the k-th chromosome: the sum over the earlier ones
\* of largest position plus spacing.
RECURSIVE RefStart(_)
RefStart(k) ==
    IF k = 1 THEN 0
    ELSE RefStart(k - 1) + RefMaxPos(RefNth(k - 1)) + RefSpacing

\* C12: when both datasets are supplied and their sets of chromosomes
\* differ, create_manhattan_plot ends with the ChromosomeSetMismatch error
\* with no figure created and nothing of the layout computed or drawn; when
\* the sets are equal or one dataset only is supplied, that error is not
\* raised.
C12_MismatchBeforeFigure ==
    plot_pc \notin {"off", "availableChr"} =>
        /\ RefMismatch =>
               /\ plot_pc = "done"
               /\ plot_outcome = ChromosomeSetMismatch
               /\ ~figure
               /\ startingPos = 0
               /\ boxes = <<>> /\ ticks = <<>> /\ spans = <<>>
               /\ plotted = <<>> /\ annots = <<>>
        /\ ~RefMismatch => plot_outcome # ChromosomeSetMismatch

\* The two-point data hold chromosome 1 only and the multipoint data
\* chromosomes 1 and 2: the call has ended with the error.
C12_Witness ==
    /\ plot_outcome = ChromosomeSetMismatch
    /\ twopoint # None /\ multipoint # None
    /\ RefChrsOf(twopoint) = {1}
    /\ RefChrsOf(multipoint) = {1, 2}

----------------------------------------------------------------------------
\* C13: the chromosomes are laid out in ascending order; the k-th has start
\* offset the sum over the earlier ones of (largest position + spacing),
\* box_min = start - spacing/2, box_max = start + largest position +
\* spacing/2 and its tick at the midpoint of the box, the largest position
\* being taken over all the datasets supplied; a call that returns has laid
\* out every chromosome.
C13_CumulativeLayout ==
    /\ Len(ticks) = Len(boxes)
    /\ Len(boxes) <= Cardinality(RefChrs)
    /\ plot_outcome.type = "return" => Len(boxes) = Cardinality(RefChrs)
    /\ \A k \in 1..Len(boxes) :
           /\ boxes[k].chr = RefNth(k)
           /\ boxes[k].maxPos = RefMaxPos(RefNth(k))
           /\ boxes[k].startingPos = RefStart(k)
           /\ 2 * boxes[k].xmin = 2 * RefStart(k) - RefSpacing
           /\ 2 * boxes[k].xmax =
                  2 * (RefStart(k) + RefMaxPos(RefNth(k))) + RefSpacing
           /\ 2 * ticks[k] = boxes[k].xmin + boxes[k].xmax
    /\ Len(boxes) >= 1 /\ RefPositions(1) = {100, 200} =>
           /\ boxes[1].chr = 1
           /\ boxes[1].startingPos = 0
           /\ 2 * boxes[1].xmax = 2 * 200 + RefSpacing

\* In cM mode chromosome 1 has its largest position, 20.0, in the
\* multipoint data only (10.0 in the two-point data), and chromosome 2 has
\* been laid out at 20.0 + 25.0.
C13_Witness ==
    /\ ~use_physical_positions
    /\ Len(boxes) = 2
    /\ twopoint # None /\ multipoint # None
    /\ \A k \in 1..Len(twopoint) :
           twopoint[k].chr = 1 => twopoint[k].pos = 100
    /\ boxes[1].maxPos = 200
    /\ boxes[2].startingPos = 450

----------------------------------------------------------------------------
\* C14 as stated: the start offsets are strictly increasing in the order of
\* the chromosomes, the box of a chromosome ends no later than the next
\* one begins, and every box has box_min < box_max.
C14_Original ==
    /\ \A k \in 1..(Len(boxes) - 1) :
           /\ boxes[k].startingPos < boxes[k + 1].startingPos
           /\ boxes[k].xmax <= boxes[k + 1].xmin
    /\ \A k \in 1..Len(boxes) : boxes[k].xmin < boxes[k].xmax

\* C14 as amended: the box of a chromosome ends exactly where the next one
\* begins; a box has box_min < box_max, and the next start offset is above
\* its own, exactly when the largest position of its chromosome is above
\* -spacing.
C14_MonotoneUnlessBelowSpacing ==
    /\ \A k \in 1..(Len(boxes) - 1) :
           /\ boxes[k].xmax = boxes[k + 1].xmin
           /\ boxes[k].startingPos < boxes[k + 1].startingPos
                  <=> RefMaxPos(RefNth(k)) > -RefSpacing
    /\ \A k \in 1..Len(boxes) :
           boxes[k].xmin < boxes[k].xmax
               <=> RefMaxPos(RefNth(k)) > -RefSpacing

\* In bp mode two chromosomes have been laid out, the first with every
\* position negative.
C14_Witness ==
    /\ use_physical_positions
    /\ Len(boxes) = 2
    /\ RefMaxPos(1) = -300
    /\ boxes[1].startingPos < boxes[2].startingPos

----------------------------------------------------------------------------
\* The two-point records of the chromosomes drawn so far.
RefDrawn ==
    {k \in 1..Len(twopoint) :
         \E b \in 1..Len(boxes) : boxes[b].chr = twopoint[k].chr}

RefHighlighted(r) ==
    \E q \in 1..Len(plotted) :
        /\ plotted[q].series = "significant"
        /\ plotted[q].chr = r.chr
        /\ plotted[q].pos = r.pos
        /\ plotted[q].y = r.conf

RefAnnotated(r) ==
    \E q \in 1..Len(annots) :
        /\ annots[q].chr = r.chr
        /\ annots[q].name = r.name
        /\ annots[q].xy[2] = r.conf

\* C16 as stated: a two-point record is highlighted, and annotated unless
\* annotation is disabled, exactly when its confidence is above the
\* threshold 3.0; a record at the threshold is not.
C16_Original ==
    \A k \in RefDrawn :
        /\ RefHighlighted(twopoint[k]) <=> twopoint[k].conf > 30
        /\ RefAnnotated(twopoint[k])
               <=> ~no_annotation /\ twopoint[k].conf > 30

\* C16 as amended: exactly when its confidence is at or above the
\* threshold.
C16_AtOrAboveThreshold ==
    \A k \in RefDrawn :
        /\ RefHighlighted(twopoint[k]) <=> twopoint[k].conf >= 30
        /\ RefAnnotated(twopoint[k])
               <=> ~no_annotation /\ twopoint[k].conf >= 30

\* A record of confidence 3.0 has been highlighted and annotated, and one
\* of confidence 2.9 has been drawn without either.
C16_Witness ==
    /\ ~no_annotation
    /\ \E k \in RefDrawn :
           /\ twopoint[k].conf = 30
           /\ RefHighlighted(twopoint[k])
           /\ RefAnnotated(twopoint[k])
    /\ \E k \in RefDrawn :
           /\ twopoint[k].conf = 29
           /\ ~RefHighlighted(twopoint[k])

----------------------------------------------------------------------------
\* The box of the chromosome of a plotted point.
RefBoxOf(p) == boxes[CHOOSE b \in 1..Len(boxes) : boxes[b].chr = p.chr]

\* C19 as stated: every plotted marker has its x coordinate inside the box
\* of its own chromosome.
C19_Original ==
    \A q \in 1..Len(plotted) :
        /\ RefBoxOf(plotted[q]).xmin <= plotted[q].x
        /\ plotted[q].x <= RefBoxOf(plotted[q]).xmax

\* C19 as amended: every plotted marker is drawn at its raw position plus
\* the start offset of its own chromosome, which is never beyond box_max and
\* is at or after box_min exactly when the raw position is at least
\* -spacing/2.
C19_InsideUnlessBelowHalfSpacing ==
    \A q \in 1..Len(plotted) :
        LET p == plotted[q]
            k == CHOOSE b \in 1..Len(boxes) : boxes[b].chr = p.chr
        IN  /\ p.x = p.pos + RefStart(k)
            /\ p.x <= boxes[k].xmax
            /\ boxes[k].xmin <= p.x <=> 2 * p.pos >= -RefSpacing

\* In bp mode a marker of negative position has been drawn on the second
\* chromosome, inside its box.
C19_Witness ==
    /\ use_physical_positions
    /\ \E q \in 1..Len(plotted) :
           /\ plotted[q].chr = 2
           /\ plotted[q].pos = -300
           /\ Len(boxes) = 2
           /\ boxes[2].startingPos > 0
           /\ boxes[2].xmin <= plotted[q].x
           /\ plotted[q].x <= boxes[2].xmax

----------------------------------------------------------------------------
(* DraggableAnnotation.  Every object is connected to the three events of  *)
(* the one canvas, so the canvas calls the callback of every object, in    *)
(* the order of connection, for each event it dispatches.  The state the   *)
(* callbacks work on is passed along as a record st.  An event is          *)
(* [name, inaxes, xdata, ydata, over]: inaxes tells whether the pointer is *)
(* in the axes of the annotations and over is the set of the objects whose *)
(* annotation contains the pointer.                                        *)

\* The pointer moves along one horizontal line of the axes.
Coords == 0..MaxCoord
Rows == {0}

DragState ==
    [lock |-> lock, press |-> press, background |-> background,
     animated |-> animated, xyann |-> xyann]

\* on_press without the test of the lock.
on_press_no_lock_test(self, st, ev) ==
    IF ~ev.inaxes THEN st
    ELSE IF self \notin ev.over THEN st
    ELSE [st EXCEPT !.press[self] = <<st.xyann[self][1], st.xyann[self][2],
                                      ev.xdata, ev.ydata>>,
                    !.lock = self,
                    !.animated[self] = TRUE,
                    !.background[self] = TRUE]

on_press(self, st, ev) ==
    IF ~ev.inaxes THEN st
    ELSE IF st.lock # NoLock THEN st
    ELSE IF self \notin ev.over THEN st
    ELSE [st EXCEPT !.press[self] = <<st.xyann[self][1], st.xyann[self][2],
                                      ev.xdata, ev.ydata>>,
                    !.lock = self,
                    !.animated[self] = TRUE,
                    !.background[self] = TRUE]

on_motion(self, st, ev) ==
    IF st.lock # self THEN st
    ELSE IF ~ev.inaxes THEN st
    ELSE LET x0 == st.press[self][1]
             y0 == st.press[self][2]
             dx == ev.xdata - st.press[self][3]
             dy == ev.ydata - st.press[self][4]
         IN  [st EXCEPT !.xyann[self] = <<x0 + dx, y0 + dy>>]

\* on_release leaving the lock alone when the pointer is out of the axes.
on_release_inaxes_only(self, st, ev) ==
    IF st.lock # self THEN st
    ELSE IF ~ev.inaxes THEN st
    ELSE [st EXCEPT !.press[self] = None,
                    !.lock = NoLock,
                    !.animated[self] = FALSE,
                    !.background[self] = FALSE]

on_release(self, st, ev) ==
    IF st.lock # self THEN st
    ELSE [st EXCEPT !.press[self] = None,
                    !.lock = NoLock,
                    !.animated[self] = FALSE,
                    !.background[self] = FALSE]

\* The callback an object has connected to the event.
Callback(self, st, ev) ==
    CASE ev.name = "button_press_event" -> on_press(self, st, ev)
      [] ev.name = "motion_notify_event" -> on_motion(self, st, ev)
      [] ev.name = "button_release_event" -> on_release(self, st, ev)

\* The state after the callbacks of the objects 1..k have run.
RECURSIVE Callbacks(_, _, _)
Callbacks(k, st, ev) ==
    IF k = 0 THEN st
    ELSE Callback(k, Callbacks(k - 1, st, ev), ev)

\* The canvas dispatches ev.  An annotation is not followed beyond the
\* coordinates of the model.
Dispatch(ev) ==
    \E st \in {Callbacks(Cardinality(drs), DragState, ev)} :
        /\ \A d \in drs : st.xyann[d][1] \in Coords
        /\ lock' = st.lock
        /\ press' = st.press
        /\ background' = st.background
        /\ animated' = st.animated
        /\ xyann' = st.xyann
        /\ event' = [name |-> ev.name, inaxes |-> ev.inaxes, over |-> ev.over]
        /\ UNCHANGED drs
        /\ UNCHANGED <<encVars, readVars, plotVars>>

\* The events the pointer can produce.
PointerEvents(name, overs) ==
    {[name |-> name, inaxes |-> TRUE, xdata |-> x, ydata |-> y, over |-> o] :
         x \in Coords, y \in Rows, o \in overs}
    \cup {[name |-> name, inaxes |-> FALSE, xdata |-> 0, ydata |-> 0,
           over |-> {}]}

ButtonPress ==
    /\ plot_pc = "shown"
    /\ \E ev \in PointerEvents("button_press_event", SUBSET drs) :
           Dispatch(ev)

MotionNotify ==
    /\ plot_pc = "shown"
    /\ \E ev \in PointerEvents("motion_notify_event", {{}}) : Dispatch(ev)

ButtonRelease ==
    /\ plot_pc = "shown"
    /\ \E ev \in PointerEvents("button_release_event", {{}}) : Dispatch(ev)

\* plt.show() is running with NumAnnots annotations made draggable.
InitDrag ==
    /\ EncIdle
    /\ ReadIdle
    /\ twopoint = None
    /\ multipoint = None
    /\ no_annotation = FALSE
    /\ plot_pc = "shown"
    /\ availableChr = <<>>
    /\ figure = TRUE
    /\ startingPos = 0
    /\ ticks = <<>>
    /\ boxes = <<>>
    /\ spans = <<>>
    /\ plotted = <<>>
    /\ annots = <<>>
    /\ plot_outcome = NotCalled
    /\ drs = 1..NumAnnots
    /\ lock = NoLock
    /\ press = [d \in 1..NumAnnots |-> None]
    /\ background = [d \in 1..NumAnnots |-> FALSE]
    /\ animated = [d \in 1..NumAnnots |-> FALSE]
    /\ xyann = [d \in 1..NumAnnots |-> <<0, 0>>]
    /\ event = [name |-> "none"]

NextDrag ==
    \/ ButtonPress
    \/ MotionNotify
    \/ ButtonRelease

SpecDrag == InitDrag /\ [][NextDrag]_vars

----------------------------------------------------------------------------
C17_State ==
    /\ lock = NoLock \/ lock \in drs
    /\ \A d \in drs :
           /\ press[d] # None <=> lock = d
           /\ animated[d] <=> lock = d

C17_Step ==
    /\ event'.name = "button_press_event" /\ lock # NoLock =>
           UNCHANGED <<lock, press, background, animated, xyann>>
    /\ event'.name \in {"motion_notify_event", "button_release_event"} =>
           \A d \in drs :
               d # lock =>
                   /\ press'[d] = press[d]
                   /\ background'[d] = background[d]
                   /\ animated'[d] = animated[d]
                   /\ xyann'[d] = xyann[d]

\* C17: the lock is None or the one object whose press data are set, so at
\* most one annotation is dragged (animated) at a time; a press while the
\* lock is held changes nothing, and a motion or a release changes nothing of
\* the objects that do not hold the lock.
C17_SingleDrag == []C17_State /\ [][C17_Step]_vars

\* A press with the pointer over both annotations has given the lock to the
\* first connected one and left the second alone.
C17_Witness ==
    /\ event.name = "button_press_event"
    /\ event.over = {1, 2}
    /\ lock = 1
    /\ press[1] # None
    /\ press[2] = None

----------------------------------------------------------------------------
C18_Step ==
    /\ event'.name = "button_release_event" =>
           /\ lock' = NoLock
           /\ \A d \in drs :
                  press'[d] = None /\ ~animated'[d] /\ ~background'[d]
    /\ /\ event'.name = "button_press_event"
       /\ event'.inaxes
       /\ event'.over # {}
       /\ lock = NoLock
       => lock' \in event'.over /\ press'[lock'] # None

\* C18: a button release, with the pointer inside or outside the axes and
\* after any motions, leaves the lock at None and no press data set, and a
\* press over an annotation while the lock is None acquires the lock.
C18_LockReleased == [][C18_Step]_vars

\* An annotation has been dragged away from where it was made and the
\* button released with the pointer outside the axes: the lock is free.
C18_Witness ==
    /\ event.name = "button_release_event"
    /\ ~event.inaxes
    /\ lock = NoLock
    /\ \E d \in drs : xyann[d] # <<0, 0>>

====
